---- MODULE Spec2Model ----
(***************************************************************************)
(* SementicSearchDB: the entry validation contract (Joi schemas and the    *)
(* validate middleware), the entry routes over the semantic_search         *)
(* collection, and the post-retrieval threshold cut and boosting of        *)
(* SemanticSearchService.searchSimilar / applyBoosting.                    *)
(*                                                                         *)
(* JavaScript objects are functions with a string domain: a key the        *)
(* object does not carry is a key outside the domain.  Strings are opaque  *)
(* tokens; StrLen and UuidStrings give the two things the schemas look at. *)
(* Numbers are fixed-point integers, SCALE units to 1.0.                   *)
(***************************************************************************)
EXTENDS Integers, Sequences, FiniteSets, TLC

VARIABLES
    vreq,      \* validation run: the schema name and the payload handed to validate
    vres,      \* validation run: what validate did with it; [done |-> FALSE] before
    store,     \* the semantic_search collection: _id -> document
    issued,    \* identifiers uuidv4() has produced so far
    req,       \* the request the router handled last
    resp,      \* the response it sent
    called,    \* the service method the route handler invoked for it, "none" if not reached
    collab,    \* the collaborator calls the service made for it, and the one that failed
    deleted,   \* history: the identifiers deleteEntry has removed
    rin,       \* ranking run: the query and the candidates the collaborator returned
    rout,      \* ranking run: the data searchSimilar returned; [done |-> FALSE] before
    astraClient, \* the AstraDBClient singleton: client, db, collection, isConnected
    service,   \* the SemanticSearchService singleton: its collection handle
    keyspace,  \* the names of the collections the database holds
    ops,       \* the service calls in flight: where each is suspended, and its locals
    trace      \* history: DataAPIClients constructed, ensureCollection runs, queries issued

vars == <<vreq, vres, store, issued, req, resp, called, collab, deleted, rin, rout,
          astraClient, service, keyspace, ops, trace>>

----------------------------------------------------------------------------
(* Bounds of the model. *)

\* payload edits applied to the valid payload in a validation run
MaxEdits == 2
\* identifiers the uuid generator can hand out in a run of the routes
MaxEntries == 2
\* candidates the collaborator returns to one query
MaxCands == 3

\* service calls in flight at the same time
MaxOps == 2

----------------------------------------------------------------------------
(* Program constants. *)

EMBEDDING_DIM == 768
LIGHTWEIGHT_DIM == 384
TITLE_MAX == 1000
CONTENT_TYPE_MAX == 10000
TAG_MAX_LEN == 100
TAGS_MAX == 20
LIMIT_MAX == 100

SCALE == 10 ^ 3

----------------------------------------------------------------------------
(* JavaScript objects. *)

EmptyObject == <<>>

Has(o, k) == k \in DOMAIN o

\* { ...a, ...b }: the keys of both, b's value where both carry the key
Spread(a, b) ==
    [k \in (DOMAIN a) \cup (DOMAIN b) |-> IF k \in DOMAIN b THEN b[k] ELSE a[k]]

Without(o, k) == [j \in (DOMAIN o) \ {k} |-> o[j]]

\* Array.prototype.filter, with the predicate given as the set of kept values
RECURSIVE SelectIdx(_, _, _)
SelectIdx(s, keep, i) ==
    IF i > Len(s) THEN <<>>
    ELSE (IF i \in keep THEN <<s[i]>> ELSE <<>>) \o SelectIdx(s, keep, i + 1)

----------------------------------------------------------------------------
(* Strings. *)

\* the tokens that are syntactically valid UUIDs
UuidStrings ==
    {"uuid-user", "uuid-entry", "uuid-session"} \cup {"uuid-e" \o ToString(i) : i \in 1..9}

\* length in characters of a token; the over-long tokens are named by their length
StrLen(s) ==
    CASE s = "" -> 0
      [] s = "x101" -> 101
      [] s = "x1001" -> 1001
      [] OTHER -> 8

----------------------------------------------------------------------------
(* Joi schemas.  A schema is the sequence of its key rules in source       *)
(* order.  limit is the string .max() or the array .length(); an absent    *)
(* bound or default is <<>>, a present one <<v>>.                          *)

Rule(key, type, required) ==
    [key |-> key, type |-> type, required |-> required,
     limit |-> <<>>, maxItems |-> <<>>, itemMax |-> <<>>,
     min |-> <<>>, max |-> <<>>, default |-> <<>>,
     children |-> <<>>, messages |-> EmptyObject]

\* the message texts of Joi that the schemas leave at their default
JoiTemplate(code) ==
    CASE code = "any.required" -> "{label} is required"
      [] code = "string.empty" -> "{label} is not allowed to be empty"
      [] code = "string.guid" -> "{label} must be a valid GUID"
      [] code = "string.max" -> "{label} length must be less than or equal to {limit} characters long"
      [] code = "array.length" -> "{label} must contain {limit} items"
      [] code = "array.max" -> "{label} must contain less than or equal to {limit} items"
      [] code = "array.includesRequiredUnknowns" -> "{label} does not contain 1 required value(s)"
      [] code = "number.base" -> "{label} must be a number"
      [] code = "number.min" -> "{label} must be greater than or equal to {limit}"
      [] code = "number.max" -> "{label} must be less than or equal to {limit}"
      [] OTHER -> "{label} is invalid"

\* semanticSearchSchemas.primaryEmbedding
primaryEmbedding ==
    [limit |-> <<EMBEDDING_DIM>>,
     messages |->
        [k \in {"array.length", "array.base"} |->
            IF k = "array.length"
            THEN [text |-> "Primary embedding must have exactly 768 dimensions",
                  names |-> <<768>>]
            ELSE [text |-> "Primary embedding must be an array of numbers",
                  names |-> <<>>]]]
    @@ Rule("primary_embedding", "vector", TRUE)

\* semanticSearchSchemas.searchMetadata: declared, used by no schema
searchMetadata ==
    [default |-> <<EmptyObject>>,
     children |-> <<
        [min |-> <<0>>, max |-> <<10 * SCALE>>, default |-> <<SCALE>>]
            @@ Rule("boost_factor", "number", FALSE),
        [min |-> <<0>>, max |-> <<SCALE>>, default |-> <<SCALE \div 2>>]
            @@ Rule("recency_weight", "number", FALSE),
        [min |-> <<0>>, max |-> <<SCALE>>, default |-> <<SCALE \div 2>>]
            @@ Rule("user_preference_alignment", "number", FALSE) >>]
    @@ Rule("search_metadata", "object", FALSE)

\* the linked_entities object of the create and update schemas
LinkedEntitiesRule(required) ==
    [children |-> <<
        Rule("people", "strings", required),
        Rule("locations", "strings", required),
        Rule("events", "strings", required),
        Rule("topics", "strings", required) >>]
    @@ Rule("linked_entities", "object", required)

\* variant of SearchMetadataRule: the schemas using the declared
\* semanticSearchSchemas.searchMetadata, defaults and all
SearchMetadataRule_Defaults(required) == searchMetadata

\* the search_metadata object of the create and update schemas
SearchMetadataRule(required) ==
    [children |-> <<
        [min |-> <<0>>] @@ Rule("boost_factor", "number", required),
        [min |-> <<0>>] @@ Rule("recency_weight", "number", required),
        [min |-> <<0>>] @@ Rule("user_preference_alignment", "number", required) >>]
    @@ Rule("search_metadata", "object", FALSE)

\* The optional keys message_type, conversation_context, text_length,
\* processing_time_ms, model_version, emotion_context and temporal_context
\* are left out of the three entry schemas: a payload carrying one of them
\* is outside the payloads modelled here.
createSemanticSearchSchema ==
    << Rule("user_id", "uuid", TRUE),
       Rule("entry_id", "uuid", TRUE),
       [limit |-> <<CONTENT_TYPE_MAX>>] @@ Rule("content_type", "string", TRUE),
       [limit |-> <<TITLE_MAX>>] @@ Rule("title", "string", TRUE),
       Rule("content", "string", TRUE),
       Rule("session_id", "uuid", TRUE),
       [limit |-> <<EMBEDDING_DIM>>] @@ Rule("primary_embedding", "vector", TRUE),
       Rule("created_at", "string", TRUE),
       Rule("updated_at", "string", TRUE),
       [limit |-> <<LIGHTWEIGHT_DIM>>] @@ Rule("lightweight_embedding", "vector", FALSE),
       [itemMax |-> <<TAG_MAX_LEN>>, maxItems |-> <<TAGS_MAX>>] @@ Rule("tags", "strings", TRUE),
       LinkedEntitiesRule(TRUE),
       SearchMetadataRule(TRUE) >>

\* variant of updateSemanticSearchSchema: a replacement validated as a patch
updateSemanticSearchSchema_Sparse ==
    << Rule("user_id", "uuid", FALSE),
       Rule("entry_id", "uuid", FALSE),
       [limit |-> <<CONTENT_TYPE_MAX>>] @@ Rule("content_type", "string", FALSE),
       [limit |-> <<TITLE_MAX>>] @@ Rule("title", "string", FALSE),
       Rule("content", "string", FALSE),
       Rule("session_id", "uuid", FALSE),
       [limit |-> <<EMBEDDING_DIM>>] @@ Rule("primary_embedding", "vector", FALSE),
       Rule("created_at", "string", FALSE),
       Rule("updated_at", "string", FALSE),
       [limit |-> <<LIGHTWEIGHT_DIM>>] @@ Rule("lightweight_embedding", "vector", FALSE),
       [itemMax |-> <<TAG_MAX_LEN>>, maxItems |-> <<TAGS_MAX>>] @@ Rule("tags", "strings", FALSE),
       LinkedEntitiesRule(FALSE),
       SearchMetadataRule(FALSE) >>

updateSemanticSearchSchema ==
    << Rule("user_id", "uuid", TRUE),
       Rule("entry_id", "uuid", TRUE),
       [limit |-> <<CONTENT_TYPE_MAX>>] @@ Rule("content_type", "string", TRUE),
       [limit |-> <<TITLE_MAX>>] @@ Rule("title", "string", TRUE),
       Rule("content", "string", TRUE),
       Rule("session_id", "uuid", TRUE),
       [limit |-> <<EMBEDDING_DIM>>] @@ Rule("primary_embedding", "vector", TRUE),
       Rule("created_at", "string", TRUE),
       Rule("updated_at", "string", TRUE),
       [limit |-> <<LIGHTWEIGHT_DIM>>] @@ Rule("lightweight_embedding", "vector", FALSE),
       [itemMax |-> <<TAG_MAX_LEN>>, maxItems |-> <<TAGS_MAX>>] @@ Rule("tags", "strings", TRUE),
       LinkedEntitiesRule(TRUE),
       SearchMetadataRule(TRUE) >>

partialUpdateSemanticSearchSchema ==
    << Rule("user_id", "uuid", FALSE),
       Rule("entry_id", "uuid", FALSE),
       [limit |-> <<CONTENT_TYPE_MAX>>] @@ Rule("content_type", "string", FALSE),
       [limit |-> <<TITLE_MAX>>] @@ Rule("title", "string", FALSE),
       Rule("content", "string", FALSE),
       Rule("session_id", "uuid", FALSE),
       [limit |-> <<EMBEDDING_DIM>>] @@ Rule("primary_embedding", "vector", FALSE),
       [limit |-> <<LIGHTWEIGHT_DIM>>] @@ Rule("lightweight_embedding", "vector", FALSE),
       [itemMax |-> <<TAG_MAX_LEN>>, maxItems |-> <<TAGS_MAX>>] @@ Rule("tags", "strings", FALSE),
       LinkedEntitiesRule(FALSE),
       SearchMetadataRule(FALSE) >>

searchQuerySchema ==
    << [key |-> "embedding"] @@ primaryEmbedding,
       Rule("user_id", "uuid", FALSE),
       Rule("content_type", "strings", FALSE),
       Rule("tags", "strings", FALSE),
       [min |-> <<1>>, max |-> <<LIMIT_MAX>>, default |-> <<10>>]
            @@ Rule("limit", "number", FALSE),
       [min |-> <<0>>, max |-> <<SCALE>>, default |-> <<(7 * SCALE) \div 10>>]
            @@ Rule("similarity_threshold", "number", FALSE),
       [default |-> <<FALSE>>] @@ Rule("boost_recent", "boolean", FALSE),
       [default |-> <<FALSE>>] @@ Rule("boost_preferences", "boolean", FALSE) >>

paramsIdSchema == << Rule("id", "uuid", TRUE) >>

schemas(name) ==
    CASE name = "createSemanticSearch" -> createSemanticSearchSchema
      [] name = "updateSemanticSearch" -> updateSemanticSearchSchema
      [] name = "partialUpdateSemanticSearch" -> partialUpdateSemanticSearchSchema
      [] name = "searchQuery" -> searchQuerySchema
      [] name = "paramsId" -> paramsIdSchema

----------------------------------------------------------------------------
(* schema.validate(payload, { abortEarly: false, allowUnknown: false,      *)
(* stripUnknown: true }): every rule of every key is run and every         *)
(* violation kept; the value has the declared keys only, with defaults for *)
(* the omitted keys that declare one and numeric strings converted.        *)

\* one entry of error.details: path.join('.'), the message and the
\* number its text names, and whether context.value is there
Violation(rule, path, code, limit, hasValue) ==
    LET msg == IF Has(rule.messages, code)
               THEN rule.messages[code]
               ELSE [text |-> JoiTemplate(code), names |-> limit]
    IN  [field |-> path, type |-> code, message |-> msg.text,
         names |-> msg.names, hasValue |-> hasValue]

\* Joi.string() [.uuid()] [.max(n)]
ValidateString(rule, v, path) ==
    [errors |->
        IF v = ""
        THEN <<Violation(rule, path, "string.empty", <<>>, TRUE)>>
        ELSE (IF rule.type = "uuid" /\ v \notin UuidStrings
              THEN <<Violation(rule, path, "string.guid", <<>>, TRUE)>>
              ELSE <<>>)
             \o
             (IF rule.limit # <<>> /\ StrLen(v) > rule.limit[1]
              THEN <<Violation(rule, path, "string.max", rule.limit, TRUE)>>
              ELSE <<>>),
     value |-> v]

\* variant of ValidateVector: the declared length taken as a minimum
ValidateVector_AtLeast(rule, v, path) ==
    [errors |->
        IF rule.limit # <<>> /\ v.len < rule.limit[1]
        THEN <<Violation(rule, path, "array.length", rule.limit, TRUE)>>
        ELSE <<>>,
     value |-> [len |-> v.len,
                items |-> IF v.items = "numeric_string" THEN "number" ELSE v.items]]

\* variant of ValidateVector: the length rule left out
ValidateVector_NoLength(rule, v, path) ==
    [errors |->
        IF v.items = "text" \/ v.len = 0
        THEN <<Violation(rule, path, "array.includesRequiredUnknowns", <<>>, FALSE)>>
        ELSE <<>>,
     value |-> [len |-> v.len,
                items |-> IF v.items = "numeric_string" THEN "number" ELSE v.items]]

\* Joi.array().items(Joi.number().required()).length(n); an array is its
\* length and the kind of its elements: "number", "numeric_string", "text"
ValidateVector(rule, v, path) ==
    [errors |->
        (IF v.items = "text"
         THEN [i \in 1..v.len |->
                  Violation(Rule("", "number", TRUE), path \o "." \o ToString(i - 1),
                            "number.base", <<>>, TRUE)]
         ELSE <<>>)
        \o
        (IF v.items = "text" \/ v.len = 0
         THEN <<Violation(rule, path, "array.includesRequiredUnknowns", <<>>, FALSE)>>
         ELSE <<>>)
        \o
        (IF rule.limit # <<>> /\ v.len # rule.limit[1]
         THEN <<Violation(rule, path, "array.length", rule.limit, TRUE)>>
         ELSE <<>>),
     value |-> [len |-> v.len,
                items |-> IF v.items = "numeric_string" THEN "number" ELSE v.items]]

\* the violations of the items i.. of an array of strings
RECURSIVE StringItemErrors(_, _, _, _)
StringItemErrors(rule, v, path, i) ==
    IF i > Len(v) THEN <<>>
    ELSE ValidateString([limit |-> rule.itemMax] @@ Rule("", "string", FALSE),
                        v[i], path \o "." \o ToString(i - 1)).errors
         \o StringItemErrors(rule, v, path, i + 1)

\* Joi.array().items(Joi.string() [.max(n)]) [.max(m)]
ValidateStrings(rule, v, path) ==
    [errors |->
        StringItemErrors(rule, v, path, 1)
        \o
        (IF rule.maxItems # <<>> /\ Len(v) > rule.maxItems[1]
         THEN <<Violation(rule, path, "array.max", rule.maxItems, TRUE)>>
         ELSE <<>>),
     value |-> v]

\* Joi.number() [.min(a)] [.max(b)]
ValidateNumber(rule, v, path) ==
    [errors |->
        (IF rule.min # <<>> /\ v < rule.min[1]
         THEN <<Violation(rule, path, "number.min", rule.min, TRUE)>>
         ELSE <<>>)
        \o
        (IF rule.max # <<>> /\ v > rule.max[1]
         THEN <<Violation(rule, path, "number.max", rule.max, TRUE)>>
         ELSE <<>>),
     value |-> v]

RECURSIVE ValidateKeys(_, _, _, _, _)

NoKeys == [errors |-> <<>>, value |-> EmptyObject]

\* the schema of one key applied to the value the payload carries for it
ValidateValue(rule, v, path) ==
    CASE rule.type \in {"uuid", "string"} -> ValidateString(rule, v, path)
      [] rule.type = "vector" -> ValidateVector(rule, v, path)
      [] rule.type = "strings" -> ValidateStrings(rule, v, path)
      [] rule.type = "number" -> ValidateNumber(rule, v, path)
      [] rule.type = "boolean" -> [errors |-> <<>>, value |-> v]
      [] rule.type = "object" -> ValidateKeys(rule.children, v, path, 1, NoKeys)

\* variant of WithKey: abortEarly, the violations after the first left out
WithKey_AbortEarly(acc, rule, r) ==
    [errors |-> IF acc.errors # <<>> THEN acc.errors ELSE r.errors,
     value |-> (rule.key :> r.value) @@ acc.value]

\* acc, the outcome of the keys before rule, with the outcome r of rule's key
WithKey(acc, rule, r) ==
    [errors |-> acc.errors \o r.errors, value |-> (rule.key :> r.value) @@ acc.value]

\* Joi.object({...}): the keys i.. of the schema over the object obj, after
\* the outcome acc of the keys before them.  The keys obj carries that the
\* schema does not declare are not copied.
ValidateKeys(rules, obj, prefix, i, acc) ==
    IF i > Len(rules) THEN acc
    ELSE
        LET rule == rules[i]
            path == IF prefix = "" THEN rule.key ELSE prefix \o "." \o rule.key
        IN  ValidateKeys(rules, obj, prefix, i + 1,
                IF Has(obj, rule.key)
                THEN WithKey(acc, rule, ValidateValue(rule, obj[rule.key], path))
                ELSE IF rule.required
                THEN [errors |-> acc.errors
                                 \o <<Violation(rule, path, "any.required", <<>>, FALSE)>>,
                      value |-> acc.value]
                ELSE IF rule.default # <<>>
                THEN [errors |-> acc.errors,
                      value |-> (rule.key :> rule.default[1]) @@ acc.value]
                ELSE acc)

ValidationResult(r) == [error |-> r.errors # <<>>, details |-> r.errors, value |-> r.value]

\* variant of JoiValidate: allowUnknown, the undeclared keys kept in the value
JoiValidate_KeepUnknown(schema, payload) ==
    [error |-> ValidateKeys(schema, payload, "", 1, NoKeys).errors # <<>>,
     details |-> ValidateKeys(schema, payload, "", 1, NoKeys).errors,
     value |-> Spread(payload, ValidateKeys(schema, payload, "", 1, NoKeys).value)]

\* schema.validate(req[property], options) as the middleware calls it
JoiValidate(schema, payload) ==
    ValidationResult(ValidateKeys(schema, payload, "", 1, NoKeys))

\* variant of Outcome: the 400 answer not returned, so that next() runs too
Outcome_FallThrough(r, payload) ==
    [next |-> TRUE, value |-> r.value,
     res |-> [status |-> IF r.error THEN 400 ELSE 0, success |-> ~r.error,
              error |-> IF r.error THEN "Validation failed" ELSE "",
              details |-> r.details, data |-> EmptyObject]]

\* the middleware's two ways out, given what schema.validate returned
Outcome(r, payload) ==
    IF r.error
    THEN [next |-> FALSE, value |-> payload,
          res |-> [status |-> 400, success |-> FALSE, error |-> "Validation failed",
                   details |-> r.details, data |-> EmptyObject]]
    ELSE [next |-> TRUE, value |-> r.value,
          res |-> [status |-> 0, success |-> TRUE, error |-> "",
                   details |-> <<>>, data |-> EmptyObject]]

\* validate(schema, property): the middleware.  next is TRUE when it calls
\* next() with req[property] replaced by the validated value, and FALSE
\* when it answers 400 itself.
validate(schemaName, payload) ==
    Outcome(JoiValidate(schemas(schemaName), payload), payload)

----------------------------------------------------------------------------
(* Payloads. *)

Vec(n, kind) == [len |-> n, items |-> kind]

\* a payload with every mandatory field of the create schema and no other
ValidEntry ==
    [user_id |-> "uuid-user",
     entry_id |-> "uuid-entry",
     content_type |-> "journal_entry",
     title |-> "Test Entry",
     content |-> "This is a test semantic entry",
     session_id |-> "uuid-session",
     primary_embedding |-> Vec(EMBEDDING_DIM, "number"),
     created_at |-> "2024-01-10",
     updated_at |-> "2024-01-10",
     tags |-> <<"test", "semantic">>,
     linked_entities |->
        [people |-> <<"Test Person">>, locations |-> <<>>,
         events |-> <<>>, topics |-> <<"testing">>]]

\* a search query with its one mandatory field
ValidQuery == [embedding |-> Vec(EMBEDDING_DIM, "number")]

Meta(bf, rw, upa) ==
    [boost_factor |-> bf, recency_weight |-> rw, user_preference_alignment |-> upa]

Omit(k) == [op |-> "omit", key |-> k, val |-> 0]
Set(k, v) == [op |-> "set", key |-> k, val |-> v]

\* the changes a validation run makes to the valid payload
Edits ==
    << Omit("user_id"), Omit("entry_id"), Omit("content_type"), Omit("title"),
       Omit("content"), Omit("session_id"), Omit("primary_embedding"),
       Omit("created_at"), Omit("updated_at"), Omit("tags"), Omit("linked_entities"),
       Omit("embedding"),
       Set("linked_entities", Without(ValidEntry.linked_entities, "people")),
       Set("linked_entities", Without(ValidEntry.linked_entities, "topics")),
       Set("primary_embedding", Vec(3, "number")),
       Set("primary_embedding", Vec(EMBEDDING_DIM - 1, "number")),
       Set("primary_embedding", Vec(EMBEDDING_DIM + 1, "number")),
       Set("primary_embedding", Vec(0, "number")),
       Set("primary_embedding", Vec(EMBEDDING_DIM, "numeric_string")),
       Set("primary_embedding", Vec(2, "text")),
       Set("embedding", Vec(3, "number")),
       Set("embedding", Vec(EMBEDDING_DIM + 1, "number")),
       Set("embedding", Vec(0, "number")),
       Set("lightweight_embedding", Vec(LIGHTWEIGHT_DIM, "number")),
       Set("lightweight_embedding", Vec(10, "number")),
       Set("user_id", "test-user"),
       Set("title", "x1001"),
       Set("title", ""),
       Set("tags", [i \in 1..(TAGS_MAX + 1) |-> "t"]),
       Set("tags", <<"x101">>),
       Set("created_at", "not a date"),
       Set("search_metadata", Meta(SCALE, SCALE \div 2, (7 * SCALE) \div 10)),
       Set("search_metadata", Meta(15 * SCALE, 2 * SCALE, 0 - (SCALE \div 2))),
       Set("search_metadata", Without(Meta(SCALE, SCALE, SCALE), "boost_factor")),
       Set("search_metadata", EmptyObject),
       Set("_id", "uuid-e1"),
       Set("feature_vector", Vec(50, "number")),
       Set("linked_entities", Spread(ValidEntry.linked_entities, [places |-> <<"Paris">>])),
       Set("boost_recent", TRUE),
       Set("similarity_threshold", 2 * SCALE) >>

NoEdit == [op |-> "none", key |-> "", val |-> 0]

ApplyEdit(body, e) ==
    CASE e.op = "none" -> body
      [] e.op = "omit" -> Without(body, e.key)
      [] e.op = "set" -> (e.key :> e.val) @@ body

RECURSIVE ApplyEdits(_, _, _)
ApplyEdits(body, es, i) ==
    IF i > Len(es) THEN body ELSE ApplyEdits(ApplyEdit(body, es[i]), es, i + 1)

ValidationSchemas == {"createSemanticSearch", "updateSemanticSearch", "searchQuery"}

BasePayload(schemaName) ==
    IF schemaName = "searchQuery" THEN ValidQuery ELSE ValidEntry

----------------------------------------------------------------------------
(* The collection handle: the documents of semantic_search by _id. *)

findOne(coll, id) == IF Has(coll, id) THEN <<coll[id]>> ELSE <<>>

insertOne(coll, doc) == (doc["_id"] :> doc) @@ coll

\* replaceOne({ _id: id }, doc): the matched document becomes doc
replaceOne(coll, id, doc) ==
    IF Has(coll, id)
    THEN [coll |-> [k \in DOMAIN coll |-> IF k = id THEN doc ELSE coll[k]],
          matchedCount |-> 1]
    ELSE [coll |-> coll, matchedCount |-> 0]

deleteOne(coll, id) ==
    IF Has(coll, id)
    THEN [coll |-> Without(coll, id), deletedCount |-> 1]
    ELSE [coll |-> coll, deletedCount |-> 0]

----------------------------------------------------------------------------
(* The AstraDBClient singleton and the service's collection handle.  A     *)
(* handle is the Collection object a db.collection(name) call returned:    *)
(* the name, and the DataAPIClient (by order of construction) it is on.    *)

COLLECTION_NAME == "semantic_search"

\* null, as a handle
NoHandle == [name |-> "", client |-> 0]

\* this.db.collection('semantic_search'), db being the one of the n-th client
Handle(n) == [name |-> COLLECTION_NAME, client |-> n]

\* new AstraDBClient()
NewAstraDBClient == [client |-> 0, db |-> 0, collection |-> NoHandle, isConnected |-> FALSE]

\* new SemanticSearchService()
NewSemanticSearchService == [collection |-> NoHandle]

NoTrace == [constructed |-> 0, ensured |-> FALSE, queries |-> {}]

\* the singletons after a first initialize() over an existing collection,
\* with no call in flight
ServiceReady ==
    /\ astraClient = [client |-> 1, db |-> 1, collection |-> Handle(1), isConnected |-> TRUE]
    /\ service = [collection |-> Handle(1)]
    /\ keyspace = {COLLECTION_NAME}
    /\ ops = <<>>
    /\ trace = [constructed |-> 1, ensured |-> TRUE, queries |-> {}]

----------------------------------------------------------------------------
(* SemanticSearchService, with the collection handle initialized.  Each    *)
(* method gives its return value and the collection it leaves.             *)

NotFound == [success |-> FALSE, error |-> "Semantic search entry not found",
             data |-> EmptyObject]

\* variant of createEntry: the entry stored under the payload's entry_id
createEntry_PayloadId(coll, entryData, uuid) ==
    LET entry == Spread([_id |-> entryData.entry_id], entryData)
    IN  IF Has(coll, entry["_id"])
        THEN [coll |-> coll, threw |-> TRUE,
              result |-> [success |-> FALSE,
                          error |-> "Failed to create semantic search entry: duplicate _id",
                          data |-> EmptyObject]]
        ELSE [coll |-> insertOne(coll, entry), threw |-> FALSE,
              result |-> [success |-> TRUE, error |-> "",
                          data |-> Spread([id |-> entry["_id"]], entry)]]

\* threw: insertOne rejected a document whose _id the collection holds
createEntry(coll, entryData, uuid) ==
    LET entry == Spread([_id |-> uuid], entryData)
    IN  IF Has(coll, entry["_id"])
        THEN [coll |-> coll, threw |-> TRUE,
              result |-> [success |-> FALSE,
                          error |-> "Failed to create semantic search entry: duplicate _id",
                          data |-> EmptyObject]]
        ELSE [coll |-> insertOne(coll, entry), threw |-> FALSE,
              result |-> [success |-> TRUE, error |-> "",
                          data |-> Spread([id |-> entry["_id"]], entry)]]

getEntryById(coll, id) ==
    LET result == findOne(coll, id)
    IN  [coll |-> coll,
         result |-> IF result = <<>> THEN NotFound
                    ELSE [success |-> TRUE, error |-> "", data |-> result[1]]]

\* variant of updateEntry: no look-up first, the replacement written as an upsert
updateEntry_Upsert(coll, id, newEntryData) ==
    [coll |-> (id :> Spread([_id |-> id], newEntryData)) @@ coll,
     result |-> [success |-> TRUE, error |-> "",
                 data |-> Spread([_id |-> id], newEntryData)]]

\* variant of updateEntry: the payload spread last, over _id and created_at
updateEntry_PayloadLast(coll, id, newEntryData) ==
    LET existingEntry == findOne(coll, id)
    IN  IF existingEntry = <<>> THEN [coll |-> coll, result |-> NotFound]
        ELSE
            LET replacementEntry ==
                    Spread([_id |-> id, created_at |-> existingEntry[1].created_at],
                           newEntryData)
                replaced == replaceOne(coll, id, replacementEntry)
            IN  [coll |-> replaced.coll,
                 result |-> [success |-> TRUE, error |-> "",
                             data |-> findOne(replaced.coll, id)[1]]]

updateEntry(coll, id, newEntryData) ==
    LET existingEntry == findOne(coll, id)
    IN  IF existingEntry = <<>> THEN [coll |-> coll, result |-> NotFound]
        ELSE
            LET replacementEntry ==
                    IF Has(existingEntry[1], "created_at")
                    THEN Spread(Spread([_id |-> id], newEntryData),
                                [created_at |-> existingEntry[1].created_at])
                    ELSE Without(Spread([_id |-> id], newEntryData), "created_at")
                replaced == replaceOne(coll, id, replacementEntry)
                updatedEntry == findOne(replaced.coll, id)
            IN  IF replaced.matchedCount = 0 THEN [coll |-> replaced.coll, result |-> NotFound]
                ELSE [coll |-> replaced.coll,
                      result |-> [success |-> TRUE, error |-> "", data |-> updatedEntry[1]]]

\* variant of deleteEntry: deletedCount not looked at
deleteEntry_IgnoresCount(coll, id) ==
    [coll |-> deleteOne(coll, id).coll,
     result |-> [success |-> TRUE, error |-> "", data |-> EmptyObject]]

deleteEntry(coll, id) ==
    LET result == deleteOne(coll, id)
    IN  [coll |-> result.coll,
         result |-> IF result.deletedCount = 0 THEN NotFound
                    ELSE [success |-> TRUE, error |-> "", data |-> EmptyObject]]

----------------------------------------------------------------------------
(* A collaborator call that rejects: the service method's catch, the       *)
(* route's next(error) and errorHandler.                                   *)

\* the messages a rejected collaborator call carries
Causes == {"Database connection failed", "AstraDB request timed out", "Invalid token"}

\* the words errorHandler looks for, as far as the text of a cause has them
Mentions(cause) ==
    CASE cause = "AstraDB request timed out" -> {"AstraDB"}
      [] cause = "Invalid token" -> {"token"}
      [] OTHER -> {}

\* process.env.NODE_ENV
Envs == {"test", "production"}

\* the collaborator calls of updateEntry on an entry that exists
UpdateCalls == <<"findOne", "replaceOne", "findOne">>

\* a fault: the at-th collaborator call of the request rejects with cause
\* (at = 0: none does), in a process run with NODE_ENV = env
NoFault == [at |-> 0, cause |-> "", env |-> ""]

Faults == {NoFault} \cup [at : 1..Len(UpdateCalls), cause : Causes, env : Envs]

\* the collaborator calls a service method makes when none rejects
CollaboratorCalls(op, coll, id) ==
    CASE op = "createEntry" -> <<"insertOne">>
      [] op = "getEntryById" -> <<"findOne">>
      [] op = "updateEntry" -> IF Has(coll, id) THEN UpdateCalls ELSE <<"findOne">>
      [] op = "deleteEntry" -> <<"deleteOne">>

\* variant of CallsUpTo: the rejected call made once more
CallsUpTo_Retry(calls, at) == SubSeq(calls, 1, at) \o <<calls[at]>>

\* the calls made when the at-th rejects: each call once, none after it
CallsUpTo(calls, at) == SubSeq(calls, 1, at)

\* what the request's collaborator calls came to
Collab(calls, fault) ==
    [calls |-> calls, failed |-> fault.at > 0, cause |-> fault.cause, env |-> fault.env,
     thrown |-> ""]

\* the collection as the calls before the rejected one leave it
CollAfterFailure(op, coll, id, newEntryData, at) ==
    IF op = "updateEntry" /\ at = Len(UpdateCalls)
    THEN updateEntry(coll, id, newEntryData).coll
    ELSE coll

\* throw new Error(`Failed to ... semantic search entry: ${error.message}`)
ServiceError(op, cause) ==
    [message |->
        (CASE op = "createEntry" -> "Failed to create semantic search entry: "
           [] op = "getEntryById" -> "Failed to get semantic search entry: "
           [] op = "updateEntry" -> "Failed to update semantic search entry: "
           [] op = "deleteEntry" -> "Failed to delete semantic search entry: ") \o cause,
     mentions |-> Mentions(cause)]

\* the status and message errorHandler settles on before the production mask
ErrorStatus(err) ==
    IF err.mentions \cap {"token", "auth"} # {}
    THEN [status |-> 401, message |-> "Authentication failed"]
    ELSE IF "AstraDB" \in err.mentions
    THEN [status |-> 503, message |-> "Database service unavailable"]
    ELSE [status |-> 500, message |-> err.message]

\* errorHandler(err, req, res, next) for an Error with no status, code or isJoi
errorHandler(err, env) ==
    IF env = "production" /\ ErrorStatus(err).status = 500
    THEN [status |-> 500, success |-> FALSE, error |-> "Internal Server Error",
          details |-> <<>>, data |-> EmptyObject]
    ELSE [status |-> ErrorStatus(err).status, success |-> FALSE,
          error |-> ErrorStatus(err).message, details |-> <<>>, data |-> EmptyObject]

----------------------------------------------------------------------------
(* The routes of /api/semantic-search/entries.  A route is its middleware  *)
(* chain run to the response: the validate middlewares in order, the       *)
(* first that fails answering, then the handler.                           *)

Respond(status, success, error, data) ==
    [status |-> status, success |-> success, error |-> error,
     details |-> <<>>, data |-> data]

EntryIds == {"uuid-e" \o ToString(i) : i \in 1..MaxEntries}

\* the :id values requests carry: the generator's identifiers and one that is no UUID
RequestIds == EntryIds \cup {"test-id"}

\* the bodies requests carry
RouteBodies ==
    << ValidEntry,
       ApplyEdits(ValidEntry,
                  <<Set("title", "Updated Title"), Set("created_at", "2024-02-09"),
                    Set("updated_at", "2024-02-09"), Set("_id", "uuid-e2"),
                    Set("id", "uuid-e2")>>, 1),
       ApplyEdits(ValidEntry,
                  <<Set("primary_embedding", Vec(EMBEDDING_DIM, "numeric_string")),
                    Set("search_metadata", Meta(15 * SCALE, 2 * SCALE, SCALE))>>, 1),
       ApplyEdits(ValidEntry, <<Set("primary_embedding", Vec(3, "number"))>>, 1),
       Without(ValidEntry, "title") >>

\* a request: its :id parameter ("" when the route has none) and its body,
\* the n-th of RouteBodies (n = 0 and an empty body when it carries none)
Request(method, id, n) ==
    [method |-> method, id |-> id, n |-> n,
     body |-> IF n = 0 THEN EmptyObject ELSE RouteBodies[n]]

\* what each validate middleware of the routes does with each request
ValidatedParams == [id \in RequestIds |-> validate("paramsId", [id |-> id])]

ValidatedBody ==
    [name \in {"createSemanticSearch", "updateSemanticSearch", "partialUpdateSemanticSearch"} |->
        [i \in 1..Len(RouteBodies) |-> validate(name, RouteBodies[i])]]

\* the handler was not reached: no collaborator call, nothing deleted
NotReached(fault) ==
    /\ fault = NoFault
    /\ called' = "none"
    /\ collab' = Collab(<<>>, NoFault)
    /\ UNCHANGED <<store, issued, deleted>>

\* the handler's catch: next(error) with what the service threw when its
\* fault.at-th collaborator call rejected
Caught(op, id, newEntryData, fault) ==
    /\ store' = CollAfterFailure(op, store, id, newEntryData, fault.at)
    /\ collab' = [Collab(CallsUpTo(CollaboratorCalls(op, store, id), fault.at), fault)
                      EXCEPT !.thrown = ServiceError(op, fault.cause).message]
    /\ resp' = errorHandler(ServiceError(op, fault.cause), fault.env)

\* router.post('/entries', validate(schemas.createSemanticSearch), ...)
PostEntries(i, fault) ==
    LET v == ValidatedBody["createSemanticSearch"][i]
    IN  /\ req' = Request("POST", "", i)
        /\ IF ~v.next
           THEN resp' = v.res /\ NotReached(fault)
           ELSE \E uuid \in EntryIds \ issued :
                    /\ issued' = issued \cup {uuid}
                    /\ called' = "createEntry"
                    /\ deleted' = deleted
                    /\ fault.at <= Len(CollaboratorCalls("createEntry", store, uuid))
                    /\ IF fault.at > 0
                       THEN Caught("createEntry", uuid, v.value, fault)
                       ELSE LET r == createEntry(store, v.value, uuid)
                            IN  /\ store' = r.coll
                                /\ collab' = Collab(CollaboratorCalls("createEntry", store, uuid),
                                                    NoFault)
                                /\ resp' = IF r.threw
                                           THEN Respond(500, FALSE, r.result.error, EmptyObject)
                                           ELSE Respond(201, TRUE, "", r.result.data)
        /\ UNCHANGED <<vreq, vres, rin, rout, astraClient, service, keyspace, ops, trace>>

\* router.get('/entries/:id', validate(schemas.paramsId, 'params'), ...)
GetEntry(id, fault) ==
    LET p == ValidatedParams[id]
    IN  /\ req' = Request("GET", id, 0)
        /\ IF ~p.next
           THEN resp' = p.res /\ NotReached(fault)
           ELSE /\ called' = "getEntryById"
                /\ UNCHANGED <<issued, deleted>>
                /\ fault.at <= Len(CollaboratorCalls("getEntryById", store, p.value.id))
                /\ IF fault.at > 0
                   THEN Caught("getEntryById", p.value.id, EmptyObject, fault)
                   ELSE LET r == getEntryById(store, p.value.id)
                        IN  /\ store' = r.coll
                            /\ collab' = Collab(CollaboratorCalls("getEntryById", store,
                                                                  p.value.id), NoFault)
                            /\ resp' = IF ~r.result.success
                                       THEN Respond(404, FALSE, r.result.error, EmptyObject)
                                       ELSE Respond(200, TRUE, "", r.result.data)
        /\ UNCHANGED <<vreq, vres, rin, rout, astraClient, service, keyspace, ops, trace>>

\* router.put('/entries/:id', validate(schemas.paramsId, 'params'),
\*            validate(schemas.updateSemanticSearch), ...)
PutEntry(id, i, fault) ==
    LET p == ValidatedParams[id]
        b == ValidatedBody["updateSemanticSearch"][i]
    IN  /\ req' = Request("PUT", id, i)
        /\ IF ~p.next
           THEN resp' = p.res /\ NotReached(fault)
           ELSE IF ~b.next
           THEN resp' = b.res /\ NotReached(fault)
           ELSE /\ called' = "updateEntry"
                /\ UNCHANGED <<issued, deleted>>
                /\ fault.at <= Len(CollaboratorCalls("updateEntry", store, p.value.id))
                /\ IF fault.at > 0
                   THEN Caught("updateEntry", p.value.id, b.value, fault)
                   ELSE LET r == updateEntry(store, p.value.id, b.value)
                        IN  /\ store' = r.coll
                            /\ collab' = Collab(CollaboratorCalls("updateEntry", store,
                                                                  p.value.id), NoFault)
                            /\ resp' = IF ~r.result.success
                                       THEN Respond(404, FALSE, r.result.error, EmptyObject)
                                       ELSE Respond(200, TRUE, "", r.result.data)
        /\ UNCHANGED <<vreq, vres, rin, rout, astraClient, service, keyspace, ops, trace>>

\* variant of PatchEntry: the validated body applied as a replacement
PatchEntry_Applies(id, i) ==
    LET p == ValidatedParams[id]
        b == ValidatedBody["partialUpdateSemanticSearch"][i]
    IN  /\ req' = Request("PATCH", id, i)
        /\ IF ~p.next
           THEN resp' = p.res /\ NotReached(NoFault)
           ELSE IF ~b.next
           THEN resp' = b.res /\ NotReached(NoFault)
           ELSE LET r == updateEntry(store, p.value.id, b.value)
                IN  /\ called' = "updateEntry"
                    /\ UNCHANGED <<issued, deleted>>
                    /\ store' = r.coll
                    /\ collab' = Collab(CollaboratorCalls("updateEntry", store, p.value.id),
                                        NoFault)
                    /\ resp' = IF ~r.result.success
                               THEN Respond(404, FALSE, r.result.error, EmptyObject)
                               ELSE Respond(200, TRUE, "", r.result.data)
        /\ UNCHANGED <<vreq, vres, rin, rout, astraClient, service, keyspace, ops, trace>>

\* router.patch('/entries/:id', validate(schemas.paramsId, 'params'),
\*              validate(schemas.partialUpdateSemanticSearch), ...)
PatchEntry(id, i) ==
    LET p == ValidatedParams[id]
        b == ValidatedBody["partialUpdateSemanticSearch"][i]
    IN  /\ req' = Request("PATCH", id, i)
        /\ NotReached(NoFault)
        /\ resp' = IF ~p.next THEN p.res
                   ELSE IF ~b.next THEN b.res
                   ELSE Respond(501, FALSE,
                                "Partial updates (PATCH) not implemented. Use PUT for complete replacement.",
                                EmptyObject)
        /\ UNCHANGED <<vreq, vres, rin, rout, astraClient, service, keyspace, ops, trace>>

\* router.delete('/entries/:id', validate(schemas.paramsId, 'params'), ...)
DeleteEntry(id, fault) ==
    LET p == ValidatedParams[id]
    IN  /\ req' = Request("DELETE", id, 0)
        /\ IF ~p.next
           THEN resp' = p.res /\ NotReached(fault)
           ELSE /\ called' = "deleteEntry"
                /\ issued' = issued
                /\ fault.at <= Len(CollaboratorCalls("deleteEntry", store, p.value.id))
                /\ IF fault.at > 0
                   THEN Caught("deleteEntry", p.value.id, EmptyObject, fault) /\ deleted' = deleted
                   ELSE LET r == deleteEntry(store, p.value.id)
                        IN  /\ store' = r.coll
                            /\ collab' = Collab(CollaboratorCalls("deleteEntry", store,
                                                                  p.value.id), NoFault)
                            /\ deleted' = IF r.result.success
                                          THEN deleted \cup {p.value.id} ELSE deleted
                            /\ resp' = IF ~r.result.success
                                       THEN Respond(404, FALSE, r.result.error, EmptyObject)
                                       ELSE Respond(200, TRUE, "", EmptyObject)
        /\ UNCHANGED <<vreq, vres, rin, rout, astraClient, service, keyspace, ops, trace>>

Idle == [done |-> FALSE]

RoutesIdle ==
    /\ store = EmptyObject
    /\ issued = {}
    /\ req = Request("none", "", 0)
    /\ resp = Respond(0, TRUE, "", EmptyObject)
    /\ called = "none"
    /\ collab = Collab(<<>>, NoFault)
    /\ deleted = {}
    /\ ServiceReady

Init ==
    /\ RoutesIdle
    /\ vreq = Idle /\ vres = Idle /\ rin = Idle /\ rout = Idle

\* the requests of the entry routes, every collaborator call succeeding
Next ==
    \/ \E i \in 1..Len(RouteBodies) : PostEntries(i, NoFault)
    \/ \E id \in RequestIds : GetEntry(id, NoFault)
    \/ \E id \in RequestIds, i \in 1..Len(RouteBodies) : PutEntry(id, i, NoFault)
    \/ \E id \in RequestIds, i \in 1..Len(RouteBodies) : PatchEntry(id, i)
    \/ \E id \in RequestIds : DeleteEntry(id, NoFault)

Spec == Init /\ [][Next]_vars

----------------------------------------------------------------------------
(* One request whose handler is reached, over a collection that is empty   *)
(* or holds one entry, with any one of its collaborator calls rejecting.   *)

InitFault ==
    /\ \E coll \in {EmptyObject, createEntry(EmptyObject, ValidEntry, "uuid-e1").coll} :
          /\ store = coll
          /\ issued = DOMAIN coll
    /\ req = Request("none", "", 0)
    /\ resp = Respond(0, TRUE, "", EmptyObject)
    /\ called = "none"
    /\ collab = Collab(<<>>, NoFault)
    /\ deleted = {}
    /\ ServiceReady
    /\ vreq = Idle /\ vres = Idle /\ rin = Idle /\ rout = Idle

\* no request has been handled yet
FirstRequest == req.method = "none"

NextFault ==
    \/ \E i \in 1..Len(RouteBodies), fault \in Faults :
          FirstRequest /\ PostEntries(i, fault)
    \/ \E id \in RequestIds, fault \in Faults :
          FirstRequest /\ GetEntry(id, fault)
    \/ \E id \in RequestIds, i \in 1..Len(RouteBodies), fault \in Faults :
          FirstRequest /\ PutEntry(id, i, fault)
    \/ \E id \in RequestIds, fault \in Faults :
          FirstRequest /\ DeleteEntry(id, fault)

SpecFault == InitFault /\ [][NextFault]_vars

----------------------------------------------------------------------------
(* Validation runs: one payload, the valid payload of the schema with at   *)
(* most MaxEdits changes, through the validate middleware of one schema.   *)

InitValidate ==
    /\ \E name \in ValidationSchemas, es \in [1..MaxEdits -> 0..Len(Edits)] :
          vreq = [done |-> TRUE, schema |-> name,
                  body |-> ApplyEdits(BasePayload(name),
                                      [i \in 1..MaxEdits |->
                                          IF es[i] = 0 THEN NoEdit ELSE Edits[es[i]]], 1)]
    /\ vres = Idle
    /\ rin = Idle /\ rout = Idle
    /\ RoutesIdle

RunValidate ==
    /\ ~vres.done
    /\ vres' = [done |-> TRUE] @@ validate(vreq.schema, vreq.body)
    /\ UNCHANGED <<vreq, store, issued, req, resp, called, collab, deleted, rin, rout,
                 astraClient, service, keyspace, ops, trace>>

NextValidate == RunValidate

SpecValidate == InitValidate /\ [][NextValidate]_vars

----------------------------------------------------------------------------
(* JavaScript numbers: fixed-point integers, SCALE units to 1.0, and NaN.  *)

NaN == -999999999

IsNaN(x) == x = NaN

JsAdd(a, b) == IF IsNaN(a) \/ IsNaN(b) THEN NaN ELSE a + b

JsSub(a, b) == IF IsNaN(a) \/ IsNaN(b) THEN NaN ELSE a - b

\* the product of two fixed-point numbers
JsMul(a, b) == IF IsNaN(a) \/ IsNaN(b) THEN NaN ELSE (a * b) \div SCALE

\* Math.min
MathMin(a, b) == IF IsNaN(a) \/ IsNaN(b) THEN NaN ELSE IF a < b THEN a ELSE b

\* a >= b; false when either is NaN
JsGE(a, b) == ~IsNaN(a) /\ ~IsNaN(b) /\ a >= b

\* x || d for numbers: d when x is undefined, 0 or NaN
OrElse(o, k, d) == IF Has(o, k) /\ o[k] # 0 /\ ~IsNaN(o[k]) THEN o[k] ELSE d

\* new Date(s) as a day count, NaN for undefined and for text that is no date
DateParse(o, k) ==
    IF ~Has(o, k) THEN NaN
    ELSE CASE o[k] = "2024-01-10" -> 10
           [] o[k] = "2024-02-09" -> 40
           [] o[k] = "2024-03-10" -> 70
           [] OTHER -> NaN

\* new Date(): the day the queries run
Now == DateParse([t |-> "2024-02-09"], "t")

\* Math.exp(-days * 0.1), for the ages the dates above give
MathExpTenth(days) ==
    CASE IsNaN(days) -> NaN
      [] days = 0 -> SCALE
      [] days = 30 -> (498 * SCALE) \div (10 ^ 4)
      [] days = -30 -> (200855 * SCALE) \div (10 ^ 4)

----------------------------------------------------------------------------
(* Array.prototype.sort(comparefn) as Node's V8 runs it on an array of     *)
(* fewer than 64 elements: the leading run is counted (and reversed when   *)
(* strictly descending), then the rest is put in place by binary           *)
(* insertion.  A comparefn result of NaN counts as 0.                      *)

\* (a, b) => b.$similarity - a.$similarity
Compare(a, b) ==
    LET v == JsSub(b["$similarity"], a["$similarity"])
    IN  IF IsNaN(v) THEN 0 ELSE v

Reverse(arr) == [i \in 1..Len(arr) |-> arr[Len(arr) + 1 - i]]

\* the last index of the run that starts at 1, scanning from idx
RECURSIVE RunEnd(_, _, _)
RunEnd(arr, descending, idx) ==
    IF idx > Len(arr) THEN idx - 1
    ELSE IF descending /\ Compare(arr[idx], arr[idx - 1]) >= 0 THEN idx - 1
    ELSE IF ~descending /\ Compare(arr[idx], arr[idx - 1]) < 0 THEN idx - 1
    ELSE RunEnd(arr, descending, idx + 1)

MakeRun(arr, descending, runLength) ==
    [len |-> runLength,
     arr |-> IF descending
             THEN Reverse(SubSeq(arr, 1, runLength)) \o SubSeq(arr, runLength + 1, Len(arr))
             ELSE arr]

CountAndMakeRun(arr) ==
    IF Len(arr) = 1 THEN [len |-> 1, arr |-> arr]
    ELSE MakeRun(arr, Compare(arr[2], arr[1]) < 0,
                 RunEnd(arr, Compare(arr[2], arr[1]) < 0, 3))

\* where pivot goes among arr[left .. right-1]
RECURSIVE InsertionPoint(_, _, _, _)
InsertionPoint(arr, pivot, left, right) ==
    IF left >= right THEN left
    ELSE IF Compare(pivot, arr[left + ((right - left) \div 2)]) < 0
         THEN InsertionPoint(arr, pivot, left, left + ((right - left) \div 2))
         ELSE InsertionPoint(arr, pivot, left + ((right - left) \div 2) + 1, right)

InsertAt(arr, start, at) ==
    SubSeq(arr, 1, at - 1) \o <<arr[start]>> \o SubSeq(arr, at, start - 1)
        \o SubSeq(arr, start + 1, Len(arr))

RECURSIVE BinaryInsertionSort(_, _)
BinaryInsertionSort(arr, start) ==
    IF start > Len(arr) THEN arr
    ELSE BinaryInsertionSort(
            InsertAt(arr, start, InsertionPoint(arr, arr[start], 1, start)),
            start + 1)

SortRun(run) == BinaryInsertionSort(run.arr, run.len + 1)

ArraySort(arr) == IF Len(arr) < 2 THEN arr ELSE SortRun(CountAndMakeRun(arr))

----------------------------------------------------------------------------
(* SemanticSearchService.searchSimilar after the collaborator's find, and  *)
(* applyBoosting.                                                          *)

\* result.search_metadata || {}
MetadataOf(result) ==
    IF Has(result, "search_metadata") THEN result.search_metadata ELSE EmptyObject

\* recencyBoost * 0.1, what boost_recent adds to adjustedSimilarity
RecencyAdded(result) ==
    JsMul(JsMul(MathExpTenth(JsSub(Now, DateParse(result, "created_at"))),
                OrElse(MetadataOf(result), "recency_weight", SCALE \div 2)),
          SCALE \div 10)

\* preferenceBoost, what boost_preferences adds to adjustedSimilarity
PreferenceAdded(result) ==
    JsMul(OrElse(MetadataOf(result), "user_preference_alignment", SCALE \div 2),
          SCALE \div 10)

\* if (metadata.boost_factor && metadata.boost_factor !== 1.0) adjusted *= boost_factor
Multiplied(result, adjusted) ==
    IF OrElse(MetadataOf(result), "boost_factor", 0) # 0
       /\ MetadataOf(result).boost_factor # SCALE
    THEN JsMul(adjusted, MetadataOf(result).boost_factor)
    ELSE adjusted

\* variant of AdjustedSimilarity: the multiplier taken before the additive boosts
AdjustedSimilarity_FactorFirst(result, options) ==
    JsAdd(JsAdd(Multiplied(result, result["$similarity"]),
                IF options.boost_recent THEN RecencyAdded(result) ELSE 0),
          IF options.boost_preferences THEN PreferenceAdded(result) ELSE 0)

\* the adjusted similarity of one result
AdjustedSimilarity(result, options) ==
    LET metadata == IF Has(result, "search_metadata") THEN result.search_metadata
                    ELSE EmptyObject
        daysSinceCreated == JsSub(Now, DateParse(result, "created_at"))
        recencyBoost == JsMul(MathExpTenth(daysSinceCreated),
                              OrElse(metadata, "recency_weight", SCALE \div 2))
        afterRecent == IF options.boost_recent
                       THEN JsAdd(result["$similarity"], JsMul(recencyBoost, SCALE \div 10))
                       ELSE result["$similarity"]
        preferenceBoost == JsMul(OrElse(metadata, "user_preference_alignment", SCALE \div 2),
                                 SCALE \div 10)
        afterPreferences == IF options.boost_preferences
                            THEN JsAdd(afterRecent, preferenceBoost)
                            ELSE afterRecent
    IN  IF OrElse(metadata, "boost_factor", 0) # 0 /\ metadata.boost_factor # SCALE
        THEN JsMul(afterPreferences, metadata.boost_factor)
        ELSE afterPreferences

\* results.map(result => ({ ...result, $similarity, $original_similarity }))
Boosted(result, options) ==
    Spread(result,
           [k \in {"$similarity", "$original_similarity"} |->
               IF k = "$similarity"
               THEN MathMin(AdjustedSimilarity(result, options), SCALE)
               ELSE result["$similarity"]])

applyBoosting(results, options) ==
    ArraySort([i \in 1..Len(results) |-> Boosted(results[i], options)])

\* the cut with > in place of >=
FilterByThreshold_Strict(results, similarity_threshold) ==
    SelectIdx(results,
              {i \in 1..Len(results) :
                  JsGE(results[i]["$similarity"], similarity_threshold + 1)},
              1)

\* results.filter(result => result.$similarity >= similarity_threshold)
FilterByThreshold(results, similarity_threshold) ==
    SelectIdx(results,
              {i \in 1..Len(results) : JsGE(results[i]["$similarity"], similarity_threshold)},
              1)

\* variant of SearchData: the default threshold reported, whatever the query's
SearchData_DefaultThreshold(processedResults, queryData) ==
    [results |-> processedResults,
     total |-> Len(processedResults),
     similarity_threshold |-> (7 * SCALE) \div 10,
     boost_applied |-> queryData.boost_recent \/ queryData.boost_preferences]

SearchData(processedResults, queryData) ==
    [results |-> processedResults,
     total |-> Len(processedResults),
     similarity_threshold |-> queryData.similarity_threshold,
     boost_applied |-> queryData.boost_recent \/ queryData.boost_preferences]

\* searchSimilar sending every query through applyBoosting
searchSimilar_AlwaysBoost(queryData, results) ==
    SearchData(
        applyBoosting(FilterByThreshold(results, queryData.similarity_threshold),
                      [boost_recent |-> queryData.boost_recent,
                       boost_preferences |-> queryData.boost_preferences]),
        queryData)

\* variant of searchSimilar: the threshold cut made on the adjusted scores
searchSimilar_CutAfterBoost(queryData, results) ==
    SearchData(
        IF queryData.boost_recent \/ queryData.boost_preferences
        THEN FilterByThreshold(
                applyBoosting(results,
                              [boost_recent |-> queryData.boost_recent,
                               boost_preferences |-> queryData.boost_preferences]),
                queryData.similarity_threshold)
        ELSE FilterByThreshold(results, queryData.similarity_threshold),
        queryData)

\* what searchSimilar returns as data for the query, given what find returned
searchSimilar(queryData, results) ==
    SearchData(
        IF queryData.boost_recent \/ queryData.boost_preferences
        THEN applyBoosting(FilterByThreshold(results, queryData.similarity_threshold),
                           [boost_recent |-> queryData.boost_recent,
                            boost_preferences |-> queryData.boost_preferences])
        ELSE FilterByThreshold(results, queryData.similarity_threshold),
        queryData)

----------------------------------------------------------------------------
(* Ranking on its own: a validated query and the candidates the            *)
(* collaborator's vector search returned for it, each carrying its raw     *)
(* $similarity.                                                            *)

\* a stored document as find returns it; absent keys are given as <<>>
\* (only the keys searchSimilar and applyBoosting read are carried)
Candidate(similarity, created_at, search_metadata) ==
    Spread(Spread([s \in {"$similarity"} |-> similarity],
                  IF created_at = <<>> THEN EmptyObject
                  ELSE [created_at |-> created_at[1]]),
           IF search_metadata = <<>> THEN EmptyObject
           ELSE [search_metadata |-> search_metadata[1]])

\* search_metadata with the keys that are given (a key given as <<>> is absent)
PartialMeta(bf, rw, upa) ==
    Spread(Spread(IF bf = <<>> THEN EmptyObject ELSE [boost_factor |-> bf[1]],
                  IF rw = <<>> THEN EmptyObject ELSE [recency_weight |-> rw[1]]),
           IF upa = <<>> THEN EmptyObject ELSE [user_preference_alignment |-> upa[1]])

Opt(S) == {<<>>} \cup {<<x>> : x \in S}

Dates == {"2024-01-10", "2024-02-09", "2024-03-10", "not a date"}

Weights == {0, SCALE \div 2, SCALE}

\* the candidates that are combined into result lists
Profiles ==
    << Candidate((9 * SCALE) \div 10, <<"2024-02-09">>, <<>>),
       Candidate((6 * SCALE) \div 10, <<"2024-02-09">>, <<>>),
       Candidate((75 * SCALE) \div 100, <<"2024-01-10">>, <<>>),
       Candidate((7 * SCALE) \div 10, <<"2024-02-09">>,
                 <<Meta(SCALE, SCALE \div 2, SCALE \div 2)>>),
       Candidate((8 * SCALE) \div 10, <<"2024-01-10">>,
                 <<Meta(SCALE, SCALE, SCALE)>>),
       Candidate((9 * SCALE) \div 10, <<>>, <<>>),
       Candidate((95 * SCALE) \div 100, <<"2024-02-09">>,
                 <<Meta(10 * SCALE, SCALE, SCALE)>>),
       Candidate((8 * SCALE) \div 10, <<"2024-03-10">>, <<Meta(0, 0, 0)>>),
       Candidate((2 * SCALE) \div 10, <<"2024-02-09">>,
                 <<Meta(2 * SCALE, SCALE, SCALE)>>) >>

\* every combination of similarity, date and metadata, for lists of one
AllCandidates ==
    {Candidate(sim, d, m) :
        sim \in {0 - SCALE, (7 * SCALE) \div 10, (95 * SCALE) \div 100, SCALE},
        d \in Opt(Dates),
        m \in Opt({PartialMeta(bf, rw, upa) :
                      bf \in Opt({0, SCALE \div 2, SCALE, 2 * SCALE, 10 * SCALE}),
                      rw \in Opt(Weights), upa \in Opt(Weights)})}

WithId(c, i) == Spread([_id |-> "uuid-e" \o ToString(i)], c)

ResultLists ==
    {<<WithId(c, 1)>> : c \in AllCandidates}
    \cup UNION {{[i \in 1..n |-> WithId(Profiles[f[i]], i)] :
                    f \in [1..n -> 1..Len(Profiles)]} : n \in 0..MaxCands}

Queries ==
    [similarity_threshold : {0, (7 * SCALE) \div 10},
     boost_recent : BOOLEAN, boost_preferences : BOOLEAN]

InitRank ==
    /\ \E q \in Queries, rs \in ResultLists :
          rin = [done |-> TRUE, query |-> q, results |-> rs]
    /\ rout = Idle
    /\ vreq = Idle /\ vres = Idle
    /\ RoutesIdle

\* searchSimilar from the point where find has returned
RunRank ==
    /\ ~rout.done
    /\ rout' = [done |-> TRUE, data |-> searchSimilar(rin.query, rin.results)]
    /\ UNCHANGED <<vreq, vres, store, issued, req, resp, called, collab, deleted, rin,
                 astraClient, service, keyspace, ops, trace>>

NextRank == RunRank

SpecRank == InitRank /\ [][NextRank]_vars

----------------------------------------------------------------------------
(* Concurrent service calls over fresh singletons.  A call runs from one   *)
(* await to the next without interruption; between two awaits of one call  *)
(* any other call may run.  pc names the await a call is suspended at, by  *)
(* function and source line.  The environment variables connect() asks for *)
(* are set.                                                                *)

Calls == 1..MaxOps

\* a call that has not started; handle is the value its pending await yields
NewCall == [pc |-> "start", handle |-> NoHandle, got |-> NoHandle, probe |-> "",
            error |-> ""]

Suspend(p, pc, handle) == [ops EXCEPT ![p].pc = pc, ![p].handle = handle]

\* the variables of the routes and of the runs, which these calls leave alone
RoutesUntouched ==
    UNCHANGED <<vreq, vres, store, issued, req, resp, called, collab, deleted, rin, rout>>

\* a service method starts: await this.initialize().  With a collection
\* handle set initialize returns it; without one it runs into
\* astraClient.getCollection(), which returns the client's handle when
\* isConnected and otherwise runs into connect() up to its
\* await this.db.collection('semantic_search')
Initialize(p) ==
    /\ ops[p].pc = "start"
    /\ IF service.collection # NoHandle
       THEN /\ ops' = Suspend(p, "await initialize", service.collection)
            /\ UNCHANGED <<astraClient, trace>>
       ELSE IF astraClient.isConnected
       THEN /\ ops' = [Suspend(p, "initialize:11", astraClient.collection)
                          EXCEPT ![p].got = astraClient.collection]
            /\ UNCHANGED <<astraClient, trace>>
       ELSE /\ trace' = [trace EXCEPT !.constructed = @ + 1]
            /\ astraClient' = [astraClient EXCEPT !.client = trace.constructed + 1,
                                                  !.db = trace.constructed + 1]
            /\ ops' = Suspend(p, "connect:32", Handle(trace.constructed + 1))
    /\ UNCHANGED <<service, keyspace>>
    /\ RoutesUntouched

\* connect() after its await: this.collection = ...; this.isConnected = true;
\* return this.collection
ConnectResumes(p) ==
    /\ ops[p].pc = "connect:32"
    /\ astraClient' = [astraClient EXCEPT !.collection = ops[p].handle,
                                          !.isConnected = TRUE]
    /\ ops' = Suspend(p, "getCollection:59", ops[p].handle)
    /\ UNCHANGED <<service, keyspace, trace>>
    /\ RoutesUntouched

\* getCollection() after await this.connect(): return this.collection
GetCollectionResumes(p) ==
    /\ ops[p].pc = "getCollection:59"
    /\ ops' = [Suspend(p, "initialize:11", astraClient.collection)
                  EXCEPT ![p].got = astraClient.collection]
    /\ UNCHANGED <<astraClient, service, keyspace, trace>>
    /\ RoutesUntouched

\* initialize() after await astraClient.getCollection(): the handle is
\* assigned and ensureCollection() runs up to its await this.collection.findOne
InitializeAssigns(p) ==
    /\ ops[p].pc = "initialize:11"
    /\ service' = [service EXCEPT !.collection = ops[p].handle]
    /\ ops' = Suspend(p, "ensureCollection:23", ops[p].handle)
    /\ UNCHANGED <<astraClient, keyspace, trace>>
    /\ RoutesUntouched

\* what the probe's findOne rejects with when the collection is not there
ProbeError == "Collection does not exist"

\* error.message.includes('not found') || includes('Collection') || includes('does not exist')
MeansMissing(message) == message = ProbeError

\* await astraClient.getDatabase(): AstraDBClient defines no getDatabase, the
\* call throws a TypeError inside the inner try, whose catch finds no
\* 'already exists' in it and throws
CreateCollectionError ==
    "Failed to create collection: astraClient.getDatabase is not a function"

\* ensureCollection() after the probe: it returns when the collection is
\* there; when it is not, the catch goes for db.createCollection and throws,
\* and the error leaves initialize() and the service method
ProbeReturns(p) ==
    /\ ops[p].pc = "ensureCollection:23"
    /\ IF ops[p].handle.name \in keyspace
       THEN /\ ops' = [Suspend(p, "initialize:12", NoHandle) EXCEPT ![p].probe = "found"]
            /\ trace' = [trace EXCEPT !.ensured = TRUE]
       ELSE /\ MeansMissing(ProbeError)
            /\ ops' = [Suspend(p, "failed", NoHandle)
                          EXCEPT ![p].probe = "missing", ![p].error = CreateCollectionError]
            /\ UNCHANGED trace
    /\ UNCHANGED <<astraClient, service, keyspace>>
    /\ RoutesUntouched

\* initialize() after await this.ensureCollection(): return this.collection
InitializeReturns(p) ==
    /\ ops[p].pc = "initialize:12"
    /\ ops' = Suspend(p, "await initialize", service.collection)
    /\ UNCHANGED <<astraClient, service, keyspace, trace>>
    /\ RoutesUntouched

\* the service method after await this.initialize(): its query on
\* this.collection, which rejects when the collection is not there
Query(p) ==
    /\ ops[p].pc = "await initialize"
    /\ trace' = [trace EXCEPT !.queries =
                    @ \cup {[call |-> p, on |-> service.collection, ensured |-> trace.ensured]}]
    /\ ops' = IF service.collection.name \in keyspace
              THEN Suspend(p, "done", NoHandle)
              ELSE [Suspend(p, "failed", NoHandle) EXCEPT ![p].error = ProbeError]
    /\ UNCHANGED <<astraClient, service, keyspace>>
    /\ RoutesUntouched

InitInitialize ==
    /\ astraClient = NewAstraDBClient
    /\ service = NewSemanticSearchService
    /\ keyspace \in {{}, {COLLECTION_NAME}}
    /\ ops = [p \in Calls |-> NewCall]
    /\ trace = NoTrace
    /\ store = EmptyObject
    /\ issued = {}
    /\ req = Request("none", "", 0)
    /\ resp = Respond(0, TRUE, "", EmptyObject)
    /\ called = "none"
    /\ collab = Collab(<<>>, NoFault)
    /\ deleted = {}
    /\ vreq = Idle /\ vres = Idle /\ rin = Idle /\ rout = Idle

NextInitialize ==
    \/ \E p \in Calls : Initialize(p)
    \/ \E p \in Calls : ConnectResumes(p)
    \/ \E p \in Calls : GetCollectionResumes(p)
    \/ \E p \in Calls : InitializeAssigns(p)
    \/ \E p \in Calls : ProbeReturns(p)
    \/ \E p \in Calls : InitializeReturns(p)
    \/ \E p \in Calls : Query(p)

SpecInitialize == InitInitialize /\ [][NextInitialize]_vars

----------------------------------------------------------------------------
(* Concurrent updateEntry and deleteEntry calls on one entry, the service  *)
(* initialized.  The collection runs each findOne, replaceOne and          *)
(* deleteOne at once; a call is suspended between its collection calls.    *)

\* the bodies the replace route hands to updateEntry
UpdateBodies ==
    {n \in 1..Len(RouteBodies) : ValidatedBody["updateSemanticSearch"][n].next}

\* a call not yet started: updateEntry(id, n-th body) or deleteEntry(id);
\* existingEntry, wrote and result are <<>> until the call has them
NewServiceCall(kind, id, n) ==
    [kind |-> kind, id |-> id, n |-> n, pc |-> "start",
     existingEntry |-> <<>>, wrote |-> <<>>, result |-> <<>>]

ServiceCalls ==
    {NewServiceCall("updateEntry", "uuid-e1", n) : n \in UpdateBodies}
        \cup {NewServiceCall("deleteEntry", "uuid-e1", 0)}

\* { _id: id, ...newEntryData, created_at: existingEntry.created_at }
ReplacementEntry(id, newEntryData, existingEntry) ==
    IF Has(existingEntry, "created_at")
    THEN Spread(Spread([_id |-> id], newEntryData),
                [created_at |-> existingEntry.created_at])
    ELSE Without(Spread([_id |-> id], newEntryData), "created_at")

Returns(p, result) == [ops EXCEPT ![p].pc = "done", ![p].result = <<result>>]

OnlyStoreAndOps ==
    UNCHANGED <<vreq, vres, issued, req, resp, called, collab, deleted, rin, rout,
                astraClient, service, keyspace, trace>>

\* const existingEntry = await this.collection.findOne({ _id: id })
UpdateFindOne(p) ==
    /\ ops[p].kind = "updateEntry" /\ ops[p].pc = "start"
    /\ ops' = [ops EXCEPT ![p].pc = "updateEntry:127",
                          ![p].existingEntry = findOne(store, ops[p].id)]
    /\ UNCHANGED store
    /\ OnlyStoreAndOps

\* if (!existingEntry) return not found; the replacement is built and
\* await this.collection.replaceOne({ _id: id }, replacementEntry)
UpdateReplaceOne(p) ==
    /\ ops[p].kind = "updateEntry" /\ ops[p].pc = "updateEntry:127"
    /\ IF ops[p].existingEntry = <<>>
       THEN /\ ops' = Returns(p, [success |-> FALSE, error |-> NotFound.error, data |-> <<>>])
            /\ UNCHANGED store
       ELSE LET replacementEntry ==
                    ReplacementEntry(ops[p].id,
                                     ValidatedBody["updateSemanticSearch"][ops[p].n].value,
                                     ops[p].existingEntry[1])
                result == replaceOne(store, ops[p].id, replacementEntry)
            IN  /\ store' = result.coll
                /\ ops' = [ops EXCEPT ![p].pc = "updateEntry:144",
                                      ![p].wrote = IF result.matchedCount = 0 THEN <<>>
                                                   ELSE <<replacementEntry>>]
    /\ OnlyStoreAndOps

\* if (result.matchedCount === 0) return not found;
\* const updatedEntry = await this.collection.findOne({ _id: id });
\* return { success: true, data: updatedEntry }
UpdateFindOneAgain(p) ==
    /\ ops[p].kind = "updateEntry" /\ ops[p].pc = "updateEntry:144"
    /\ ops' = IF ops[p].wrote = <<>>
              THEN Returns(p, [success |-> FALSE, error |-> NotFound.error, data |-> <<>>])
              ELSE Returns(p, [success |-> TRUE, error |-> "",
                               data |-> findOne(store, ops[p].id)])
    /\ UNCHANGED store
    /\ OnlyStoreAndOps

\* deleteEntry: await this.collection.deleteOne({ _id: id }), then the
\* deletedCount check
DeleteDeleteOne(p) ==
    /\ ops[p].kind = "deleteEntry" /\ ops[p].pc = "start"
    /\ store' = deleteOne(store, ops[p].id).coll
    /\ ops' = Returns(p, IF deleteOne(store, ops[p].id).deletedCount = 0
                         THEN [success |-> FALSE, error |-> NotFound.error, data |-> <<>>]
                         ELSE [success |-> TRUE, error |-> "", data |-> <<>>])
    /\ OnlyStoreAndOps

InitUpdate ==
    /\ store = createEntry(EmptyObject, ValidEntry, "uuid-e1").coll
    /\ issued = {"uuid-e1"}
    /\ ops \in [Calls -> ServiceCalls]
    /\ astraClient = [client |-> 1, db |-> 1, collection |-> Handle(1), isConnected |-> TRUE]
    /\ service = [collection |-> Handle(1)]
    /\ keyspace = {COLLECTION_NAME}
    /\ trace = [constructed |-> 1, ensured |-> TRUE, queries |-> {}]
    /\ req = Request("none", "", 0)
    /\ resp = Respond(0, TRUE, "", EmptyObject)
    /\ called = "none"
    /\ collab = Collab(<<>>, NoFault)
    /\ deleted = {}
    /\ vreq = Idle /\ vres = Idle /\ rin = Idle /\ rout = Idle

NextUpdate ==
    \/ \E p \in Calls : UpdateFindOne(p)
    \/ \E p \in Calls : UpdateReplaceOne(p)
    \/ \E p \in Calls : UpdateFindOneAgain(p)
    \/ \E p \in Calls : DeleteDeleteOne(p)

SpecUpdate == InitUpdate /\ [][NextUpdate]_vars

----------------------------------------------------------------------------
(* Properties of the routes, checked under Spec. *)

EntrySchemas == {"createSemanticSearch", "updateSemanticSearch"}

\* whether schema.validate reports a violation for each body the routes receive
BodyRejected ==
    [name \in EntrySchemas |->
        [i \in 1..Len(RouteBodies) |-> JoiValidate(schemas(name), RouteBodies[i]).error]]

ParamsRejected ==
    [id \in RequestIds |-> JoiValidate(paramsIdSchema, [id |-> id]).error]

\* the request r has a violation in its body or in its id parameter
RequestViolates(r) ==
    CASE r.method = "POST" -> BodyRejected["createSemanticSearch"][r.n]
      [] r.method = "PUT" ->
            ParamsRejected[r.id] \/ BodyRejected["updateSemanticSearch"][r.n]
      [] OTHER -> FALSE

\* C1: a successful PUT /entries/:id leaves the record stored under id with
\* identifier id and with the created_at it had before the replace, whatever
\* _id, id or created_at the payload carried.
C1_ReplaceKeepsIdentityAndCreatedAt ==
    [][ (req'.method = "PUT" /\ resp'.status = 200) =>
            /\ Has(store, req'.id) /\ Has(store', req'.id)
            /\ store'[req'.id]["_id"] = req'.id
            /\ store'[req'.id].created_at = store[req'.id].created_at
            /\ DOMAIN store' = DOMAIN store ]_vars

\* C1 witness: a replace went through whose payload carried another _id and
\* another created_at than the stored record's
C1_Witness ==
    /\ req.method = "PUT" /\ resp.status = 200
    /\ Has(req.body, "_id") /\ req.body["_id"] # req.id
    /\ req.body.created_at # store[req.id].created_at

\* C2: a POST /entries or PUT /entries/:id with a violation in its body or
\* id never reaches the handler: no service method is called, the stored
\* entries are unchanged, and the one answer is 400 'Validation failed'.
C2_ViolationStopsRequest ==
    [][ RequestViolates(req') =>
            /\ called' = "none"
            /\ store' = store
            /\ resp'.status = 400 /\ ~resp'.success
            /\ resp'.error = "Validation failed"
            /\ resp'.details # <<>> ]_vars

\* C2 witness: a PUT naming a stored entry was refused for its body
C2_Witness ==
    /\ req.method = "PUT" /\ Has(store, req.id)
    /\ resp.status = 400 /\ called = "none"
    /\ BodyRejected["updateSemanticSearch"][req.n]

\* C10: every stored entry has a primary_embedding of exactly 768 numbers.
C10_StoredEmbeddingIs768 ==
    \A id \in DOMAIN store :
        /\ Has(store[id], "primary_embedding")
        /\ store[id].primary_embedding.len = 768
        /\ store[id].primary_embedding.items = "number"

\* C10 witness: two entries are stored, one written by a replace, one sent
\* with its embedding as numeric strings
C10_Witness ==
    /\ Cardinality(DOMAIN store) = 2
    /\ req.method = "PUT" /\ resp.status = 200
    /\ \E id \in DOMAIN store : Has(store[id], "search_metadata")

----------------------------------------------------------------------------
(* Properties of validation, checked under SpecValidate. *)

\* the 768-dimension vector field of a schema
VectorField(name) == IF name = "searchQuery" THEN "embedding" ELSE "primary_embedding"

\* the violation list names field with a violation of kind code
Reported(details, field, code) ==
    \E i \in DOMAIN details : details[i].field = field /\ details[i].type = code

\* C7: a create, replace or search payload whose 768-dimension vector has
\* another length fails validation with a violation on that field whose
\* message names 768; the vector handed on is never a resized one.
C7_WrongLengthReported ==
    (vres.done /\ Has(vreq.body, VectorField(vreq.schema))) =>
        LET f == VectorField(vreq.schema)
        IN  /\ vreq.body[f].len # 768 =>
                /\ ~vres.next /\ vres.res.status = 400
                /\ \E i \in DOMAIN vres.res.details :
                      /\ vres.res.details[i].field = f
                      /\ vres.res.details[i].type = "array.length"
                      /\ vres.res.details[i].names = <<768>>
            /\ vres.value[f].len = vreq.body[f].len

\* C7 witness: a replace payload with a 769-element primary_embedding was refused
C7_Witness ==
    /\ vres.done /\ vreq.schema = "updateSemanticSearch"
    /\ Has(vreq.body, "primary_embedding") /\ vreq.body.primary_embedding.len = 769
    /\ ~vres.next

\* the fields mandatory at creation
CreateMandatory ==
    {"user_id", "entry_id", "content_type", "title", "content", "session_id",
     "primary_embedding", "created_at", "updated_at", "tags", "linked_entities"}

LinkedMandatory == {"people", "locations", "events", "topics"}

RequiredKeys(schema) == {schema[i].key : i \in {j \in DOMAIN schema : schema[j].required}}

C9_DefaultsFilledIn ==
    (vres.done /\ vreq.schema \in EntrySchemas /\ vres.next
        /\ ~Has(vreq.body, "search_metadata")) =>
            /\ Has(vres.value, "search_metadata")
            /\ vres.value.search_metadata = Meta(SCALE, SCALE \div 2, SCALE \div 2)

\* C9 amended: a create or replace payload with every mandatory field valid
\* and no optional field passes validation and is handed on as it is: no
\* key is added, search_metadata stays absent and no default is filled in.
C9_NoDefaultsAdded ==
    (vres.done /\ vreq.schema \in EntrySchemas) =>
        /\ vreq.body = ValidEntry => (vres.next /\ vres.value = ValidEntry)
        /\ vres.next =>
              /\ DOMAIN vres.value \subseteq DOMAIN vreq.body
              /\ ~Has(vreq.body, "search_metadata") => ~Has(vres.value, "search_metadata")

\* C9 witness: the payload with the mandatory fields only passed the create schema
C9_Witness ==
    /\ vres.done /\ vreq.schema = "createSemanticSearch"
    /\ vreq.body = ValidEntry /\ vres.next

----------------------------------------------------------------------------
(* Properties of ranking, checked under SpecRank. *)

IdsOf(results) == {results[i]._id : i \in 1..Len(results)}

Similarities(results) == [i \in 1..Len(results) |-> results[i]["$similarity"]]

\* the place of a result among the candidates the collaborator returned
InputIndex(result) == CHOOSE i \in 1..Len(rin.results) : rin.results[i]._id = result._id

BoostRequested == rin.query.boost_recent \/ rin.query.boost_preferences

\* C3: searchSimilar keeps a candidate returned by the collaborator if and
\* only if its raw similarity is greater than or equal to
\* similarity_threshold, with or without boosting.
C3_KeptIffAtOrAboveThreshold ==
    rout.done =>
        \A i \in 1..Len(rin.results) :
            (rin.results[i]._id \in IdsOf(rout.data.results))
                <=> (rin.results[i]["$similarity"] >= rin.query.similarity_threshold)

C3_Witness ==
    /\ rout.done
    /\ \E i, j \in 1..Len(rin.results) :
          /\ rin.results[i]["$similarity"] = rin.query.similarity_threshold
          /\ rin.results[i]._id \in IdsOf(rout.data.results)
          /\ rin.results[j]["$similarity"] < rin.query.similarity_threshold
          /\ rin.results[j]._id \notin IdsOf(rout.data.results)

\* C4: with neither boost flag set, the results are candidates exactly as the
\* collaborator returned them (scores unchanged), in the collaborator's
\* relative order; raw scores [0.9, 0.6, 0.75] with threshold 0.7 give
\* [0.9, 0.75].
C4_NoBoostKeepsOrderAndScores ==
    (rout.done /\ ~BoostRequested) =>
        /\ \A j \in 1..Len(rout.data.results) :
              rout.data.results[j] = rin.results[InputIndex(rout.data.results[j])]
        /\ \A j, k \in 1..Len(rout.data.results) :
              j < k => InputIndex(rout.data.results[j]) < InputIndex(rout.data.results[k])
        /\ (/\ Similarities(rin.results)
                  = <<(9 * SCALE) \div 10, (6 * SCALE) \div 10, (75 * SCALE) \div 100>>
            /\ rin.query.similarity_threshold = (7 * SCALE) \div 10)
              => Similarities(rout.data.results)
                    = <<(9 * SCALE) \div 10, (75 * SCALE) \div 100>>
        /\ ~rout.data.boost_applied

C4_Witness ==
    /\ rout.done /\ ~BoostRequested
    /\ Similarities(rin.results)
          = <<(9 * SCALE) \div 10, (6 * SCALE) \div 10, (75 * SCALE) \div 100>>
    /\ rin.query.similarity_threshold = (7 * SCALE) \div 10
    /\ Len(rout.data.results) = 2

\* C5: with at least one boost flag set, the similarity reported for every
\* result is a number that is at most 1.0.
C5_ReportedSimilarityAtMostOne ==
    (rout.done /\ BoostRequested) =>
        \A j \in 1..Len(rout.data.results) :
            /\ ~IsNaN(rout.data.results[j]["$similarity"])
            /\ rout.data.results[j]["$similarity"] <= SCALE

\* C6: with at least one boost flag set, the results are in non-increasing
\* order of adjusted similarity, and results of equal adjusted similarity
\* keep the relative order of the input.  Stated for the pairs of results
\* whose adjusted similarities are both numbers.
C6_SortedDescendingStable ==
    (rout.done /\ BoostRequested) =>
        \A j, k \in 1..Len(rout.data.results) :
            (/\ j < k
             /\ ~IsNaN(rout.data.results[j]["$similarity"])
             /\ ~IsNaN(rout.data.results[k]["$similarity"]))
                => /\ rout.data.results[j]["$similarity"] >= rout.data.results[k]["$similarity"]
                   /\ rout.data.results[j]["$similarity"] = rout.data.results[k]["$similarity"]
                        => InputIndex(rout.data.results[j]) < InputIndex(rout.data.results[k])

----------------------------------------------------------------------------
(* Properties of the stored entries, checked under Spec. *)

\* C11: every stored entry has created_at <= updated_at, whatever dates the
\* create and replace payloads carried.
C11_CreatedNotAfterUpdated ==
    \A id \in DOMAIN store :
        JsGE(DateParse(store[id], "updated_at"), DateParse(store[id], "created_at"))

\* m is within the ranges semanticSearchSchemas.searchMetadata declares
WithinDeclaredRanges(m) ==
    \A i \in DOMAIN searchMetadata.children :
        /\ Has(m, searchMetadata.children[i].key)
        /\ m[searchMetadata.children[i].key] >= searchMetadata.children[i].min[1]
        /\ m[searchMetadata.children[i].key] <= searchMetadata.children[i].max[1]

\* C12: the search_metadata of every stored entry is within its declared
\* ranges: boost_factor in [0, 10], recency_weight and
\* user_preference_alignment in [0, 1].
C12_StoredMetadataInRange ==
    \A id \in DOMAIN store :
        Has(store[id], "search_metadata") => WithinDeclaredRanges(store[id].search_metadata)

\* whether schema.validate reports a violation for each body a PATCH carries
PatchBodyRejected ==
    [i \in 1..Len(RouteBodies) |->
        JoiValidate(partialUpdateSemanticSearchSchema, RouteBodies[i]).error]

C16_UnknownIdIsNotFound ==
    [][ (called' \in {"getEntryById", "updateEntry", "deleteEntry"} /\ ~Has(store, req'.id)) =>
            /\ resp'.status = 404 /\ ~resp'.success
            /\ resp'.error = "Semantic search entry not found"
            /\ ~collab'.failed /\ collab'.thrown = ""
            /\ store' = store /\ deleted' = deleted ]_vars

\* C16 witness: a delete of an identifier not stored, beside a stored entry, was answered 404
C16_Witness ==
    /\ called = "deleteEntry" /\ resp.status = 404
    /\ store # EmptyObject /\ ~Has(store, req.id)

\* C18: a successful create stores the entry under an identifier the
\* generator produced for it, not one of the payload, and every stored
\* entry is the only one with its identifier.
C18_ServerGeneratedUniqueIds ==
    [][ /\ \A k \in DOMAIN store' : store'[k]["_id"] = k
        /\ (req'.method = "POST" /\ resp'.status = 201) =>
              \E uuid \in issued' \ issued :
                  /\ ~Has(store, uuid)
                  /\ DOMAIN store' = DOMAIN store \cup {uuid}
                  /\ resp'.data.id = uuid /\ resp'.data["_id"] = uuid
                  /\ \A k \in DOMAIN store : store'[k] = store[k] ]_vars

\* C18 witness: a payload carrying an _id was stored under another, generated one
C18_Witness ==
    /\ req.method = "POST" /\ resp.status = 201
    /\ Has(req.body, "_id") /\ resp.data["_id"] # req.body["_id"]
    /\ Cardinality(DOMAIN store) = 2

\* C19: an identifier deleteEntry has removed is never stored again, and
\* every later getEntryById, updateEntry and deleteEntry for it returns
\* not-found.
C19_DeletedStaysGone ==
    [][ \A id \in deleted :
            /\ ~Has(store, id) /\ ~Has(store', id)
            /\ (req'.id = id /\ called' \in {"getEntryById", "updateEntry", "deleteEntry"}) =>
                  /\ resp'.status = 404
                  /\ resp'.error = "Semantic search entry not found" ]_vars

\* C19 witness: a valid replace of a deleted identifier was answered 404
C19_Witness ==
    /\ req.method = "PUT" /\ req.id \in deleted
    /\ called = "updateEntry" /\ resp.status = 404

----------------------------------------------------------------------------
(* Properties of a failing collaborator, checked under SpecFault. *)

\* C17: when a collaborator call of a service method rejects, the method
\* makes no call after it and does not repeat it, the request is not
\* answered as a success, and the error the method throws carries the
\* collaborator's message; for a message errorHandler has no special case
\* for, the answer is 500 with success false (and, outside production,
\* with the thrown message).
C17_FailureSurfacedOnce ==
    [][ collab'.failed =>
            /\ ~resp'.success /\ resp'.status \notin {200, 201}
            /\ Len(collab'.calls) <= Len(CollaboratorCalls(called', store, req'.id))
            /\ \A k \in 1..Len(collab'.calls) :
                  collab'.calls[k] = CollaboratorCalls(called', store, req'.id)[k]
            /\ collab'.thrown = ServiceError(called', collab'.cause).message
            /\ (called' = "createEntry" /\ collab'.cause = "Database connection failed") =>
                  collab'.thrown
                      = "Failed to create semantic search entry: Database connection failed"
            /\ Mentions(collab'.cause) = {} =>
                  /\ resp'.status = 500
                  /\ collab'.env = "test" => resp'.error = collab'.thrown ]_vars

\* C17 witness: the last look-up of a replace rejected with a plain message,
\* after the replacement was written, and the request was answered 500
C17_Witness ==
    /\ collab.failed /\ called = "updateEntry"
    /\ collab.calls = UpdateCalls
    /\ collab.cause = "Database connection failed"
    /\ resp.status = 500 /\ ~resp.success

----------------------------------------------------------------------------
(* Properties of one validation pass, checked under SpecValidate. *)

\* the keys of the schema whose rule the payload breaks, each key judged alone
ViolatedKeys(schema, body) ==
    {schema[i].key : i \in {j \in DOMAIN schema :
        IF Has(body, schema[j].key)
        THEN ValidateValue(schema[j], body[schema[j].key], schema[j].key).errors # <<>>
        ELSE schema[j].required}}

\* the paths of a key and of what it holds
PathsOf(k) ==
    {k} \cup {k \o "." \o c :
                c \in LinkedMandatory
                      \cup {"boost_factor", "recency_weight", "user_preference_alignment"}
                      \cup {ToString(n) : n \in 0..TAGS_MAX}}

\* C14: a payload that breaks the rules of two or more fields is refused in
\* one pass with a violation for each of those fields; every violation has
\* its field path and its reason, and the offending value when there is one.
C14_EveryViolationReported ==
    (vres.done /\ Cardinality(ViolatedKeys(schemas(vreq.schema), vreq.body)) >= 2) =>
        /\ ~vres.next /\ vres.res.status = 400
        /\ \A k \in ViolatedKeys(schemas(vreq.schema), vreq.body) :
              \E i \in DOMAIN vres.res.details : vres.res.details[i].field \in PathsOf(k)
        /\ \A i \in DOMAIN vres.res.details :
              /\ vres.res.details[i].field # ""
              /\ vres.res.details[i].message # ""
              /\ vres.res.details[i].hasValue
                    \/ vres.res.details[i].type
                          \in {"any.required", "array.includesRequiredUnknowns"}

\* C14 witness: a payload with a title too long and an embedding too short
\* was refused with both reported
C14_Witness ==
    /\ vres.done /\ ~vres.next
    /\ ViolatedKeys(schemas(vreq.schema), vreq.body) = {"title", "primary_embedding"}
    /\ Has(vreq.body, "title") /\ Has(vreq.body, "primary_embedding")
    /\ Len(vres.res.details) = 2

DeclaredKeys(schema) == {schema[i].key : i \in DOMAIN schema}

\* the payload without the keys the schema does not declare
DeclaredPart(schema, body) ==
    [k \in DOMAIN body \cap DeclaredKeys(schema) |-> body[k]]

\* body carries a key its schema does not declare, at the top or in linked_entities
CarriesUndeclared(schema, body) ==
    \/ ~(DOMAIN body \subseteq DeclaredKeys(schema))
    \/ /\ Has(body, "linked_entities") /\ "linked_entities" \in DeclaredKeys(schema)
       /\ ~(DOMAIN body.linked_entities \subseteq LinkedMandatory)

\* C15: a payload that is valid but for undeclared fields passes validation
\* with no violation, and the value handed on is the one of the payload
\* without them: no undeclared field is in it.
C15_UndeclaredFieldsDropped ==
    (/\ vres.done
     /\ CarriesUndeclared(schemas(vreq.schema), vreq.body)
     /\ ~JoiValidate(schemas(vreq.schema),
                     DeclaredPart(schemas(vreq.schema), vreq.body)).error) =>
        /\ vres.next /\ vres.res.details = <<>>
        /\ DOMAIN vres.value \subseteq DeclaredKeys(schemas(vreq.schema))
        /\ Has(vres.value, "linked_entities") =>
              DOMAIN vres.value.linked_entities \subseteq LinkedMandatory
        /\ \A k \in DOMAIN vres.value \cap DOMAIN vreq.body :
              k \notin {"linked_entities", "primary_embedding", "embedding"} =>
                  vres.value[k] = vreq.body[k]

\* C15 witness: an entry payload with _id and an undeclared key inside
\* linked_entities passed, both gone
C15_Witness ==
    /\ vres.done /\ vres.next /\ vreq.schema = "createSemanticSearch"
    /\ Has(vreq.body, "_id")
    /\ Has(vreq.body.linked_entities, "places")
    /\ vres.value = ValidEntry

----------------------------------------------------------------------------
(* Properties of the search result, checked under SpecRank. *)

\* C20: searchSimilar reports a total equal to the number of results it
\* returns and the similarity_threshold of the query; with no candidate it
\* returns no result and total 0, with or without boost flags.
C20_TotalAndThresholdReported ==
    rout.done =>
        /\ rout.data.total = Len(rout.data.results)
        /\ rout.data.similarity_threshold = rin.query.similarity_threshold
        /\ rout.data.boost_applied = BoostRequested
        /\ rin.results = <<>> => (rout.data.results = <<>> /\ rout.data.total = 0)

\* C20 witness: a boosted query over no candidate returned total 0
C20_Witness ==
    /\ rout.done /\ rin.results = <<>> /\ BoostRequested
    /\ rin.query.similarity_threshold = 0
    /\ rout.data.total = 0

----------------------------------------------------------------------------
(* Properties of boosting, checked under SpecRank. *)

\* the candidate a result was made from
InputOf(result) == rin.results[InputIndex(result)]

\* the candidates that pass the threshold cut, in the collaborator's order
Kept == FilterByThreshold(rin.results, rin.query.similarity_threshold)

\* the score of a candidate when the two contributions are added one after
\* the other, first the one named, and the multiplier is taken once, last
SequentialScore(c, first) ==
    MathMin(Multiplied(c,
                IF first = "recent"
                THEN JsAdd(JsAdd(c["$similarity"], RecencyAdded(c)), PreferenceAdded(c))
                ELSE JsAdd(JsAdd(c["$similarity"], PreferenceAdded(c)), RecencyAdded(c))),
            SCALE)

SequentialRanking(first) ==
    ArraySort([i \in 1..Len(Kept) |->
                  Spread(Kept[i],
                         [k \in {"$similarity", "$original_similarity"} |->
                             IF k = "$similarity" THEN SequentialScore(Kept[i], first)
                             ELSE Kept[i]["$similarity"]])])

C23_RecencyAddedBounded ==
    (rout.done /\ rin.query.boost_recent /\ ~rin.query.boost_preferences) =>
        \A j \in 1..Len(rout.data.results) :
            (/\ ~IsNaN(DateParse(InputOf(rout.data.results[j]), "created_at"))
             /\ Multiplied(InputOf(rout.data.results[j]), SCALE \div 2) = SCALE \div 2)
                => /\ rout.data.results[j]["$similarity"]
                         >= MathMin(rout.data.results[j]["$original_similarity"], SCALE)
                   /\ rout.data.results[j]["$similarity"]
                         - rout.data.results[j]["$original_similarity"]
                         <= JsMul(OrElse(MetadataOf(InputOf(rout.data.results[j])),
                                         "recency_weight", SCALE \div 2),
                                  SCALE \div 10)

\* C24: with boost_recent set, a candidate without created_at gets a score
\* that is a number, the one it has with nothing added for recency.
C24_MissingCreatedAtAddsNothing ==
    (rout.done /\ rin.query.boost_recent) =>
        \A j \in 1..Len(rout.data.results) :
            ~Has(InputOf(rout.data.results[j]), "created_at")
                => /\ ~IsNaN(rout.data.results[j]["$similarity"])
                   /\ rout.data.results[j]["$similarity"]
                         = MathMin(Multiplied(InputOf(rout.data.results[j]),
                                      IF rin.query.boost_preferences
                                      THEN JsAdd(InputOf(rout.data.results[j])["$similarity"],
                                                 PreferenceAdded(InputOf(rout.data.results[j])))
                                      ELSE InputOf(rout.data.results[j])["$similarity"]),
                                   SCALE)

\* C25: a weight the entry carries is used as given, 0 included: under
\* boost_preferences alone the score is the raw one plus
\* user_preference_alignment * 0.1, and under boost_recent alone (created_at
\* a date) the raw one plus exp(-0.1 * age) * recency_weight * 0.1.
C25_ExplicitWeightUsedAsGiven ==
    rout.done =>
        \A j \in 1..Len(rout.data.results) :
            /\ (/\ rin.query.boost_preferences /\ ~rin.query.boost_recent
                /\ Has(MetadataOf(InputOf(rout.data.results[j])), "user_preference_alignment"))
                  => rout.data.results[j]["$similarity"]
                        = MathMin(Multiplied(InputOf(rout.data.results[j]),
                              JsAdd(InputOf(rout.data.results[j])["$similarity"],
                                    JsMul(MetadataOf(InputOf(rout.data.results[j]))
                                              .user_preference_alignment,
                                          SCALE \div 10))), SCALE)
            /\ (/\ rin.query.boost_recent /\ ~rin.query.boost_preferences
                /\ Has(MetadataOf(InputOf(rout.data.results[j])), "recency_weight")
                /\ ~IsNaN(DateParse(InputOf(rout.data.results[j]), "created_at")))
                  => rout.data.results[j]["$similarity"]
                        = MathMin(Multiplied(InputOf(rout.data.results[j]),
                              JsAdd(InputOf(rout.data.results[j])["$similarity"],
                                    JsMul(JsMul(MathExpTenth(JsSub(Now,
                                                    DateParse(InputOf(rout.data.results[j]),
                                                              "created_at"))),
                                                MetadataOf(InputOf(rout.data.results[j]))
                                                    .recency_weight),
                                          SCALE \div 10))), SCALE)

\* the score after the additive boosts the query asks for
AdditiveSum(c) ==
    JsAdd(IF rin.query.boost_recent THEN JsAdd(c["$similarity"], RecencyAdded(c))
          ELSE c["$similarity"],
          IF rin.query.boost_preferences THEN PreferenceAdded(c) ELSE 0)

\* C26: with a boost flag set, the score after the additive boosts is
\* multiplied by boost_factor before the clamp for every boost_factor the
\* entry carries that is not 1.0, and left as it is exactly when
\* boost_factor is 1.0 or absent.
C26_MultipliedUnlessOneOrAbsent ==
    (rout.done /\ BoostRequested) =>
        \A j \in 1..Len(rout.data.results) :
            rout.data.results[j]["$similarity"]
                = MathMin(IF /\ Has(MetadataOf(InputOf(rout.data.results[j])), "boost_factor")
                             /\ MetadataOf(InputOf(rout.data.results[j])).boost_factor # SCALE
                          THEN JsMul(AdditiveSum(InputOf(rout.data.results[j])),
                                     MetadataOf(InputOf(rout.data.results[j])).boost_factor)
                          ELSE AdditiveSum(InputOf(rout.data.results[j])),
                          SCALE)

\* C27: with a boost flag set, the results are the candidates whose raw
\* similarity is at or above the threshold, each once, whatever their
\* adjusted scores, and $original_similarity is the raw score.
C27_BoostingDropsNothing ==
    (rout.done /\ BoostRequested) =>
        /\ IdsOf(rout.data.results) = IdsOf(Kept)
        /\ Len(rout.data.results) = Len(Kept)
        /\ \A j, k \in 1..Len(rout.data.results) :
              j # k => rout.data.results[j]._id # rout.data.results[k]._id
        /\ \A j \in 1..Len(rout.data.results) :
              /\ rout.data.results[j]["$original_similarity"]
                    = InputOf(rout.data.results[j])["$similarity"]
              /\ Without(Without(rout.data.results[j], "$similarity"), "$original_similarity")
                    = Without(InputOf(rout.data.results[j]), "$similarity")

\* C27 witness: a result was kept with an adjusted score below the threshold
C27_Witness ==
    /\ rout.done /\ BoostRequested
    /\ \E j \in 1..Len(rout.data.results) :
          /\ ~IsNaN(rout.data.results[j]["$similarity"])
          /\ rout.data.results[j]["$similarity"] < rin.query.similarity_threshold
          /\ rout.data.results[j]["$original_similarity"] >= rin.query.similarity_threshold

----------------------------------------------------------------------------
(* Properties of initialization, checked under SpecInitialize. *)

\* C22: a call whose probe found the collection missing goes on: it has not
\* failed, the collection is there, and the service's handle is one of it.
C22_MissingCollectionIsCreated ==
    \A p \in DOMAIN ops :
        ops[p].probe = "missing" =>
            /\ ops[p].pc # "failed"
            /\ COLLECTION_NAME \in keyspace
            /\ service.collection.name = COLLECTION_NAME

\* C29: every query a service method issued on the service's handle was
\* issued after a run of ensureCollection had completed successfully.
C29_NoQueryBeforeEnsured ==
    \A q \in trace.queries : q.ensured

\* C30: at most one DataAPIClient is constructed, and all the callers of
\* getCollection() receive the same handle.
C30_OneClientOneHandle ==
    /\ trace.constructed <= 1
    /\ \A p, q \in DOMAIN ops :
          (ops[p].got # NoHandle /\ ops[q].got # NoHandle) => ops[p].got = ops[q].got

----------------------------------------------------------------------------
(* Properties of concurrent calls on one entry, checked under SpecUpdate. *)

\* C28: an updateEntry call that returns success true returns as data the
\* record it wrote, not null and not the record of another call.
C28_UpdateReturnsWhatItWrote ==
    \A p \in DOMAIN ops :
        (/\ ops[p].kind = "updateEntry"
         /\ ops[p].result # <<>>
         /\ ops[p].result[1].success)
            => /\ ops[p].result[1].data # <<>>
               /\ ops[p].result[1].data = ops[p].wrote

====
